---- MODULE Spec2Model ----
(***************************************************************************)
(* tools/run_metrics.py: the pipeline that stages candidate rasters in a   *)
(* working directory, writes the metrics config file, converts the staged  *)
(* rasters to the reference coordinate system, converts the staged DSM to  *)
(* Float32 and calls core3dmetrics.main.                                   *)
(*                                                                         *)
(* A Python string is a sequence of pieces, '+' is \o and '' is <<>>.      *)
(* A path string is a record [dir, base]: os.path.join builds it and       *)
(* os.path.basename reads its base.  The file system is a set of           *)
(* directories and a function from paths to file contents.                 *)
(***************************************************************************)
EXTENDS Integers, Sequences, FiniteSets, TLC

VARIABLES
    args,            \* argparse namespace of main (line 94)
    now,             \* datetime.datetime.now().timestamp(), whole seconds
    dirs,            \* directories that exist
    fs,              \* files that exist: path -> content
    dirs0,           \* the directories at the start of the run
    fs0,             \* the files at the start of the run
    pc,              \* position of main
    working_dir,     \* locals of main
    ref_dsm,
    test_dsm,
    test_cls,
    test_mtl,
    test_dtm,
    config_filename,
    ref_proj4,
    log,             \* the calls main has made, in order
    config_calls,    \* argument lists generate_config_file was called with
    engine_calls,    \* argument lists core3dmetrics.main was called with
    engine_status,   \* how the core3dmetrics.main call ended
    raised,          \* the step whose call raised an exception ("" if none)
    history          \* the runs of the script that ended before this one

locals == <<working_dir, ref_dsm, test_dsm, test_cls, test_mtl, test_dtm,
            config_filename, ref_proj4>>
vars == <<args, now, dirs, fs, dirs0, fs0, pc, locals, log, config_calls,
          engine_calls, engine_status, raised, history>>

----------------------------------------------------------------------------
(* Strings and paths *)

Str(s) == <<s>>
EmptyStr == <<>>
\* Python's None where a string is expected
None == <<"<None>">>
\* the truth value of a string or None (lines 97, 137, 139)
Truthy(s) == s # None /\ s # EmptyStr

Path(d, b) == [dir |-> d, base |-> b]
\* None and '' where a path string is expected
NonePath == Path(None, None)
EmptyPath == Path(EmptyStr, EmptyStr)
basename(p) == p.base
join(d, b) == Path(d, b)
PathTruthy(p) == p # NonePath /\ p # EmptyPath

\* largest timestamp (seconds) of the clock
MaxTime == 2

----------------------------------------------------------------------------
(* The inputs of a run *)

InDir == Str("/in")
AltDir == Str("/alt")
OutDir == Str("/out")
RelOutDir == Str("out")
RefDir == Str("/ref")
RefPrefix == Str("AOI")

\* line 107: args.ref_prefix + '-DSM.tif'
RefDsmName(prefix) == prefix \o Str("-DSM.tif")

DsmArgs == {Path(InDir, Str("a.tif")), Path(AltDir, Str("a.tif")),
            Path(InDir, RefDsmName(RefPrefix))}
ClsArgs == {Path(InDir, Str("b.tif")), Path(AltDir, Str("a.tif")),
            Path(OutDir, Str("a.tif"))}
MtlArgs == {NonePath, EmptyPath, Path(InDir, Str("c.tif")),
            Path(OutDir, Str("a.tif"))}
DtmArgs == {NonePath, EmptyPath, Path(InDir, Str("d.tif")), Path(AltDir, Str("c.tif"))}
OutputDirArgs == {None, EmptyStr, OutDir, RelOutDir}
RefDirArgs == {RefDir, OutDir}

Args == [output_dir : OutputDirArgs, ref_dir : RefDirArgs, ref_prefix : {RefPrefix},
         dsm : DsmArgs, cls : ClsArgs, mtl : MtlArgs, dtm : DtmArgs]

\* create_working_dir, line 31: 'metrics-' + str(timestamp).split('.')[0]
MetricsDirName(t) == Str("metrics-") \o Str(ToString(t))

----------------------------------------------------------------------------
(* The file system before the run *)

RefCrs == "EPSG:32617"
OtherCrs == "EPSG:4326"
NoCrs == "none"

Raster(p, crs, dtype) == [data |-> p, crs |-> crs, dtype |-> dtype]
OldFile(p) == [data |-> p, crs |-> NoCrs, dtype |-> "text"]

CandidatePaths == {p \in DsmArgs \cup ClsArgs \cup MtlArgs \cup DtmArgs : PathTruthy(p)}

\* rasters under /alt and /ref already use the reference CRS and Float32
CandidateContent(p) ==
    IF p.dir = AltDir THEN Raster(p, RefCrs, "float32")
    ELSE Raster(p, OtherCrs, "float64")

InitialDirs(outExists, prior) ==
    {InDir, AltDir, RefDir}
    \cup (IF outExists THEN {OutDir, RelOutDir} ELSE {})
    \cup (IF prior > 0 THEN {MetricsDirName(prior)} ELSE {})

\* dsmState: the file at args.dsm is a readable raster ("ok"), absent
\* ("missing") or a file that is no readable raster ("corrupt")
InitialFiles(a, ds, dsmState) ==
    LET cand == {p \in CandidatePaths : p.dir \in ds /\ ~(p = a.dsm /\ dsmState = "missing")}
        refs == {Path(d, RefDsmName(RefPrefix)) : d \in {RefDir, OutDir} \cap ds}
        old  == {Path(d, Str("old.txt")) : d \in {OutDir, RelOutDir} \cap ds}
    IN  [p \in cand \cup refs \cup old |->
            IF p \in old THEN OldFile(p)
            ELSE IF p = a.dsm /\ dsmState = "corrupt" THEN Raster(p, NoCrs, "float64")
            ELSE IF p \in cand THEN CandidateContent(p)
            ELSE Raster(p, RefCrs, "float32")]

Init ==
    /\ args \in Args
    /\ \E outExists \in BOOLEAN, prior \in 0..MaxTime, dsmState \in {"ok", "missing", "corrupt"} :
        /\ now \in 1..MaxTime
        /\ Truthy(args.output_dir) => (now = 1 /\ prior = 0)
        /\ ~Truthy(args.output_dir) => outExists
        /\ dirs0 = InitialDirs(outExists, prior)
        /\ fs0 = InitialFiles(args, dirs0, dsmState)
    /\ dirs = dirs0
    /\ fs = fs0
    /\ pc = "mkdir"
    /\ working_dir = None
    /\ ref_dsm = NonePath
    /\ test_dsm = NonePath
    /\ test_cls = NonePath
    /\ test_mtl = NonePath
    /\ test_dtm = NonePath
    /\ config_filename = NonePath
    /\ ref_proj4 = NoCrs
    /\ log = <<>>
    /\ config_calls = <<>>
    /\ engine_calls = <<>>
    /\ engine_status = "not called"
    /\ raised = ""
    /\ history = <<>>

----------------------------------------------------------------------------
(* Library calls *)

\* os.path.exists on a directory path
exists(d) == d \in dirs

\* shutil.copyfile(src, dst) succeeds: src and dst are not the same file, src
\* is a file, dst is a file name in a directory that exists
copyfile_ok(src, dst) ==
    /\ src # dst
    /\ src \in DOMAIN fs
    /\ dst.dir \in dirs
    /\ dst.base # EmptyStr

\* the files after shutil.copyfile(src, dst): dst is created or overwritten
copyfile(src, dst) == (dst :> fs[src]) @@ fs

\* open(name, 'w') and f.write(contents)
write_ok(name) == name.dir \in dirs /\ name.base # EmptyStr
write(name, contents) == (name :> contents) @@ fs

CrsOf(c) == IF "crs" \in DOMAIN c THEN c.crs ELSE NoCrs

(* danesfield.metrics: the package modules main imports *)

\* coordinate_system.get_coordinate_system(path)
get_coordinate_system_ok(path) == path \in DOMAIN fs /\ CrsOf(fs[path]) # NoCrs
get_coordinate_system(path) == fs[path].crs

\* coordinate_system.convert_coordinate_system(path, proj4): rewrites the
\* raster at path in place so that its CRS is proj4
convert_coordinate_system_ok(path, proj4) ==
    path \in DOMAIN fs /\ CrsOf(fs[path]) # NoCrs /\ proj4 # NoCrs
convert_coordinate_system(path, proj4) ==
    [fs EXCEPT ![path] = [@ EXCEPT !.crs = proj4]]

\* datatype.convert_float32(path): rewrites the raster at path as Float32
convert_float32_ok(path) == path \in DOMAIN fs /\ CrsOf(fs[path]) # NoCrs
convert_float32(path) == [fs EXCEPT ![path] = [@ EXCEPT !.dtype = "float32"]]

\* config.get_template(): the template and its placeholders
get_template ==
    [ref_prefix |-> Str("{ref_prefix}"),
     dsm |-> Path(EmptyStr, Str("{dsm}")), cls |-> Path(EmptyStr, Str("{cls}")),
     mtl |-> Path(EmptyStr, Str("{mtl}")), dtm |-> Path(EmptyStr, Str("{dtm}"))]

\* config.populate_template(contents, ref_prefix, dsm, cls, mtl, dtm)
populate_template(contents, ref_prefix, dsm, cls, mtl, dtm) ==
    [contents EXCEPT !.ref_prefix = ref_prefix, !.dsm = dsm, !.cls = cls,
                     !.mtl = mtl, !.dtm = dtm]

\* config.get_filename(test_dsm, test_cls): a file name derived from both paths
get_filename(dsm, cls) ==
    Str("metrics:") \o dsm.dir \o Str("/") \o dsm.base \o Str("+")
        \o cls.dir \o Str("/") \o cls.base \o Str(".config")

----------------------------------------------------------------------------
(* main, lines 96-153 *)

\* the statements of main in program order
Steps == <<"mkdir", "paths", "copy_dsm", "copy_cls", "copy_mtl", "copy_dtm",
           "config", "get_crs", "conv_dsm", "conv_cls", "conv_mtl", "conv_dtm",
           "float32", "engine">>

\* the statement that follows `step` in `order`
AfterIn(order, step) ==
    LET i == CHOOSE k \in 1..Len(order) : order[k] = step
    IN  IF i = Len(order) THEN "Done" ELSE order[i + 1]

\* main without its line 145
After_SkipFloat32(step) ==
    AfterIn(SelectSeq(Steps, LAMBDA x : x # "float32"), step)

\* main with lines 128-129 moved before line 112
After_ConfigFirst(step) ==
    AfterIn(<<"mkdir", "paths", "config">>
                \o SelectSeq(Steps, LAMBDA x : x \notin {"mkdir", "paths", "config"}),
            step)

\* the statement main runs after `step` has completed
After(step) == AfterIn(Steps, step)

Ev(step, op, src, dst) == [step |-> step, op |-> op, src |-> src, dst |-> dst]

\* main with every call wrapped in try/except: pass
Fail_Swallowed(step) ==
    /\ raised' = step
    /\ pc' = After(step)
    /\ fs' = fs
    /\ dirs' = dirs

\* main with a handler that removes the working directory (shutil.rmtree)
Fail_Cleanup(step) ==
    /\ raised' = step
    /\ pc' = "Failed"
    /\ fs' = [p \in {q \in DOMAIN fs : q.dir # working_dir} |-> fs[p]]
    /\ dirs' = dirs \ {working_dir}

\* a call of `step` raises: main has no try/except, so the exception leaves
\* main at once and nothing is rolled back
Fail(step) ==
    /\ raised' = step
    /\ pc' = "Failed"
    /\ fs' = fs
    /\ dirs' = dirs

\* main calls `op` at `step`; the call raises when its precondition does not
\* hold or on an I/O error, and otherwise leaves the files fsNew and the
\* directories dirsNew
Call(step, ev, ok, fsNew, dirsNew) ==
    /\ pc = step
    /\ log' = Append(log, ev)
    /\ \E ioerr \in BOOLEAN :
        IF ioerr \/ ~ok
        THEN Fail(step)
        ELSE /\ fs' = fsNew
             /\ dirs' = dirsNew
             /\ pc' = After(step)
             /\ raised' = raised

\* a statement that calls nothing
Skip(step) ==
    /\ pc = step
    /\ pc' = After(step)
    /\ UNCHANGED <<fs, dirs, log, raised>>

const == <<args, now, dirs0, fs0, history>>

\* lines 97-102: --output-dir given and missing
MakeOutputDir ==
    /\ Truthy(args.output_dir)
    /\ ~exists(args.output_dir)
    /\ Call("mkdir",
            Ev("mkdir", "makedirs", Path(args.output_dir, EmptyStr), Path(args.output_dir, EmptyStr)),
            TRUE, fs, dirs \cup {args.output_dir})
    /\ working_dir' = IF pc' = "Failed" THEN working_dir ELSE args.output_dir
    /\ UNCHANGED <<const, ref_dsm, test_dsm, test_cls, test_mtl, test_dtm,
                   config_filename, ref_proj4, config_calls, engine_calls, engine_status>>

\* lines 97-102 with the directory removed and made again
ReuseOutputDir_Recreate ==
    /\ Truthy(args.output_dir)
    /\ exists(args.output_dir)
    /\ pc = "mkdir"
    /\ pc' = After("mkdir")
    /\ fs' = [p \in {q \in DOMAIN fs : q.dir # args.output_dir} |-> fs[p]]
    /\ working_dir' = args.output_dir
    /\ UNCHANGED <<const, dirs, log, raised, ref_dsm, test_dsm, test_cls, test_mtl,
                   test_dtm, config_filename, ref_proj4, config_calls, engine_calls, engine_status>>

\* lines 97-102: --output-dir given and present
ReuseOutputDir ==
    /\ Truthy(args.output_dir)
    /\ exists(args.output_dir)
    /\ Skip("mkdir")
    /\ working_dir' = args.output_dir
    /\ UNCHANGED <<const, ref_dsm, test_dsm, test_cls, test_mtl, test_dtm,
                   config_filename, ref_proj4, config_calls, engine_calls, engine_status>>

\* create_working_dir with os.makedirs(working_dir, exist_ok=True) at line 32
CreateWorkingDir_ExistOk ==
    /\ ~Truthy(args.output_dir)
    /\ LET d == MetricsDirName(now) IN
        /\ Call("mkdir", Ev("mkdir", "mkdir", Path(d, EmptyStr), Path(d, EmptyStr)),
                TRUE, fs, dirs \cup {d})
        /\ working_dir' = IF pc' = "Failed" THEN working_dir ELSE d
    /\ UNCHANGED <<const, ref_dsm, test_dsm, test_cls, test_mtl, test_dtm,
                   config_filename, ref_proj4, config_calls, engine_calls, engine_status>>

\* lines 103-104 and create_working_dir, lines 26-33: os.mkdir raises when
\* the directory exists
CreateWorkingDir ==
    /\ ~Truthy(args.output_dir)
    /\ LET d == MetricsDirName(now) IN
        /\ Call("mkdir", Ev("mkdir", "mkdir", Path(d, EmptyStr), Path(d, EmptyStr)),
                ~exists(d), fs, dirs \cup {d})
        /\ working_dir' = IF pc' = "Failed" THEN working_dir ELSE d
    /\ UNCHANGED <<const, ref_dsm, test_dsm, test_cls, test_mtl, test_dtm,
                   config_filename, ref_proj4, config_calls, engine_calls, engine_status>>

\* lines 107-109
GetImagePaths ==
    /\ Skip("paths")
    /\ ref_dsm' = join(args.ref_dir, RefDsmName(args.ref_prefix))
    /\ test_dsm' = join(working_dir, basename(args.dsm))
    /\ test_cls' = join(working_dir, basename(args.cls))
    /\ UNCHANGED <<const, working_dir, test_mtl, test_dtm, config_filename,
                   ref_proj4, config_calls, engine_calls, engine_status>>

\* line 112
CopyDsm ==
    /\ Call("copy_dsm", Ev("copy_dsm", "copyfile", args.dsm, test_dsm),
            copyfile_ok(args.dsm, test_dsm), copyfile(args.dsm, test_dsm), dirs)
    /\ UNCHANGED <<const, locals, config_calls, engine_calls, engine_status>>

\* line 113
CopyCls ==
    /\ Call("copy_cls", Ev("copy_cls", "copyfile", args.cls, test_cls),
            copyfile_ok(args.cls, test_cls), copyfile(args.cls, test_cls), dirs)
    /\ UNCHANGED <<const, locals, config_calls, engine_calls, engine_status>>

\* lines 116-118
CopyMtl ==
    /\ args.mtl # NonePath
    /\ LET dst == join(working_dir, basename(args.mtl)) IN
        /\ Call("copy_mtl", Ev("copy_mtl", "copyfile", args.mtl, dst),
                copyfile_ok(args.mtl, dst), copyfile(args.mtl, dst), dirs)
        /\ test_mtl' = dst
    /\ UNCHANGED <<const, working_dir, ref_dsm, test_dsm, test_cls, test_dtm,
                   config_filename, ref_proj4, config_calls, engine_calls, engine_status>>

\* lines 119-120
NoMtl ==
    /\ args.mtl = NonePath
    /\ Skip("copy_mtl")
    /\ test_mtl' = EmptyPath
    /\ UNCHANGED <<const, working_dir, ref_dsm, test_dsm, test_cls, test_dtm,
                   config_filename, ref_proj4, config_calls, engine_calls, engine_status>>

\* lines 121-123
CopyDtm ==
    /\ args.dtm # NonePath
    /\ LET dst == join(working_dir, basename(args.dtm)) IN
        /\ Call("copy_dtm", Ev("copy_dtm", "copyfile", args.dtm, dst),
                copyfile_ok(args.dtm, dst), copyfile(args.dtm, dst), dirs)
        /\ test_dtm' = dst
    /\ UNCHANGED <<const, working_dir, ref_dsm, test_dsm, test_cls, test_mtl,
                   config_filename, ref_proj4, config_calls, engine_calls, engine_status>>

\* lines 124-125
NoDtm ==
    /\ args.dtm = NonePath
    /\ Skip("copy_dtm")
    /\ test_dtm' = EmptyPath
    /\ UNCHANGED <<const, working_dir, ref_dsm, test_dsm, test_cls, test_mtl,
                   config_filename, ref_proj4, config_calls, engine_calls, engine_status>>

\* lines 128-129: the arguments of generate_config_file
ConfigArgs ==
    [working_dir |-> working_dir, ref_prefix |-> args.ref_prefix, test_dsm |-> test_dsm,
     test_cls |-> test_cls, test_mtl |-> test_mtl, test_dtm |-> test_dtm]

\* generate_config_file, lines 36-52, called at lines 128-129
GenerateConfigFile ==
    LET a == ConfigArgs
        contents == populate_template(get_template, a.ref_prefix, a.test_dsm,
                                      a.test_cls, a.test_mtl, a.test_dtm)
        name == join(a.working_dir, get_filename(a.test_dsm, a.test_cls))
    IN  /\ Call("config", Ev("config", "write", name, name),
                write_ok(name), write(name, contents), dirs)
        /\ config_filename' = IF pc' = "Failed" THEN config_filename ELSE name
        /\ config_calls' = Append(config_calls, ConfigArgs)
        /\ UNCHANGED <<const, working_dir, ref_dsm, test_dsm, test_cls, test_mtl,
                       test_dtm, ref_proj4, engine_calls, engine_status>>

\* line 134
GetReferenceCrs ==
    /\ Call("get_crs", Ev("get_crs", "get_coordinate_system", ref_dsm, ref_dsm),
            get_coordinate_system_ok(ref_dsm), fs, dirs)
    /\ ref_proj4' = IF pc' = "Failed" THEN ref_proj4 ELSE get_coordinate_system(ref_dsm)
    /\ UNCHANGED <<const, working_dir, ref_dsm, test_dsm, test_cls, test_mtl,
                   test_dtm, config_filename, config_calls, engine_calls, engine_status>>

\* main converts the staged raster at `path` to ref_proj4
Convert(step, path) ==
    /\ Call(step, Ev(step, "convert_coordinate_system", path, path),
            convert_coordinate_system_ok(path, ref_proj4),
            convert_coordinate_system(path, ref_proj4), dirs)
    /\ UNCHANGED <<const, locals, config_calls, engine_calls, engine_status>>

\* line 135
ConvertDsm == Convert("conv_dsm", test_dsm)

\* main without its line 136
ConvertCls_Skipped ==
    /\ Skip("conv_cls")
    /\ UNCHANGED <<const, locals, config_calls, engine_calls, engine_status>>

\* line 136
ConvertCls == Convert("conv_cls", test_cls)

\* lines 137-138 without the test of line 137
ConvertMtl_Unguarded == Convert("conv_mtl", test_mtl)

\* lines 137-138
ConvertMtl == PathTruthy(test_mtl) /\ Convert("conv_mtl", test_mtl)

\* lines 137-138 without the `if test_mtl:` test, the call left out
NoConvertMtl_Unguarded ==
    /\ Skip("conv_mtl")
    /\ UNCHANGED <<const, locals, config_calls, engine_calls, engine_status>>

\* line 137, test_mtl == ''
NoConvertMtl ==
    /\ ~PathTruthy(test_mtl)
    /\ Skip("conv_mtl")
    /\ UNCHANGED <<const, locals, config_calls, engine_calls, engine_status>>

\* lines 139-140
ConvertDtm == PathTruthy(test_dtm) /\ Convert("conv_dtm", test_dtm)

\* line 139, test_dtm == ''
NoConvertDtm ==
    /\ ~PathTruthy(test_dtm)
    /\ Skip("conv_dtm")
    /\ UNCHANGED <<const, locals, config_calls, engine_calls, engine_status>>

\* line 145
ConvertFloat32 ==
    /\ Call("float32", Ev("float32", "convert_float32", test_dsm, test_dsm),
            convert_float32_ok(test_dsm), convert_float32(test_dsm), dirs)
    /\ UNCHANGED <<const, locals, config_calls, engine_calls, engine_status>>

\* lines 148-153 with args.output_dir passed as '--output'
EngineArgs_OutputDirArg ==
    [config |-> config_filename, reference |-> args.ref_dir,
     test |-> working_dir, output |-> args.output_dir]

\* lines 148-153: the argument list of core3dmetrics.main
EngineArgs ==
    [config |-> config_filename, reference |-> args.ref_dir,
     test |-> working_dir, output |-> working_dir]

\* how a call of core3dmetrics.main can end: it returns (main discards the
\* value) or an exception leaves it
EngineOutcomes == {"returned", "raised"}

\* lines 148-153 inside try/except: pass
RunMetrics_ErrorIgnored ==
    /\ pc = "engine"
    /\ log' = Append(log, Ev("engine", "core3dmetrics.main", config_filename, config_filename))
    /\ engine_calls' = Append(engine_calls, EngineArgs)
    /\ \E outcome \in EngineOutcomes :
        /\ engine_status' = outcome
        /\ pc' = After("engine")
        /\ raised' = raised
    /\ UNCHANGED <<const, locals, config_calls, fs, dirs>>

\* lines 148-153 with the call of core3dmetrics.main repeated
RunMetrics_Twice ==
    /\ pc = "engine"
    /\ log' = Append(log, Ev("engine", "core3dmetrics.main", config_filename, config_filename))
    /\ engine_calls' = Append(Append(engine_calls, EngineArgs), EngineArgs)
    /\ \E outcome \in EngineOutcomes :
        /\ engine_status' = outcome
        /\ IF outcome = "raised"
           THEN Fail("engine")
           ELSE /\ pc' = After("engine")
                /\ raised' = raised
                /\ UNCHANGED <<fs, dirs>>
    /\ UNCHANGED <<const, locals, config_calls>>

\* lines 148-153: what core3dmetrics.main writes under the output directory
\* is its own business and is not modelled
RunMetrics ==
    /\ pc = "engine"
    /\ log' = Append(log, Ev("engine", "core3dmetrics.main", config_filename, config_filename))
    /\ engine_calls' = Append(engine_calls, EngineArgs)
    /\ \E outcome \in EngineOutcomes :
        /\ engine_status' = outcome
        /\ IF outcome = "raised"
           THEN Fail("engine")
           ELSE /\ pc' = After("engine")
                /\ raised' = raised
                /\ UNCHANGED <<fs, dirs>>
    /\ UNCHANGED <<const, locals, config_calls>>

Next ==
    \/ MakeOutputDir
    \/ ReuseOutputDir
    \/ CreateWorkingDir
    \/ GetImagePaths
    \/ CopyDsm
    \/ CopyCls
    \/ CopyMtl
    \/ NoMtl
    \/ CopyDtm
    \/ NoDtm
    \/ GenerateConfigFile
    \/ GetReferenceCrs
    \/ ConvertDsm
    \/ ConvertCls
    \/ ConvertMtl
    \/ NoConvertMtl
    \/ ConvertDtm
    \/ NoConvertDtm
    \/ ConvertFloat32
    \/ RunMetrics

Spec == Init /\ [][Next]_vars

----------------------------------------------------------------------------
(* Two runs of the script, one after the other, on the same file system *)

\* the arguments of the first and of the second run
FirstArgs ==
    {a \in Args : /\ a.ref_dir = RefDir
                  /\ a.output_dir \in {None, OutDir}
                  /\ a.dsm = Path(InDir, Str("a.tif"))
                  /\ a.cls = Path(InDir, Str("b.tif"))
                  /\ a.mtl = NonePath
                  /\ a.dtm = NonePath}
SecondArgs ==
    {a \in Args : /\ a.ref_dir = RefDir
                  /\ a.output_dir \in {None, OutDir}
                  /\ a.dsm \in {Path(InDir, Str("a.tif")), Path(AltDir, Str("a.tif"))}
                  /\ a.cls = Path(InDir, Str("b.tif"))
                  /\ <<a.mtl, a.dtm>> \in {<<NonePath, NonePath>>,
                                           <<Path(InDir, Str("c.tif")), Path(InDir, Str("d.tif"))>>}}

InitRuns ==
    /\ Init
    /\ args \in FirstArgs
    /\ args.dsm \in DOMAIN fs0
    /\ CrsOf(fs0[args.dsm]) # NoCrs

\* what a later run can see of a run that has ended
RunRecord ==
    [args |-> args, now |-> now, working_dir |-> working_dir,
     config_filename |-> config_filename, dirs0 |-> dirs0]

\* lines 156-161: the script is started again when the first run has ended,
\* in the same second or later, on the files the first run left
StartRun ==
    /\ pc \in {"Done", "Failed"}
    /\ history = <<>>
    /\ history' = Append(history, RunRecord)
    /\ args' \in SecondArgs
    /\ now' \in now..MaxTime
    /\ dirs0' = dirs
    /\ fs0' = fs
    /\ pc' = "mkdir"
    /\ working_dir' = None
    /\ ref_dsm' = NonePath
    /\ test_dsm' = NonePath
    /\ test_cls' = NonePath
    /\ test_mtl' = NonePath
    /\ test_dtm' = NonePath
    /\ config_filename' = NonePath
    /\ ref_proj4' = NoCrs
    /\ log' = <<>>
    /\ config_calls' = <<>>
    /\ engine_calls' = <<>>
    /\ engine_status' = "not called"
    /\ raised' = ""
    /\ UNCHANGED <<dirs, fs>>

NextRuns == Next \/ StartRun

SpecRuns == InitRuns /\ [][NextRuns]_vars

----------------------------------------------------------------------------
(* What a run has done so far *)

LogSteps == [i \in 1..Len(log) |-> log[i].step]

IsPrefix(s, t) == Len(s) <= Len(t) /\ \A i \in 1..Len(s) : s[i] = t[i]

\* the calls of the log that returned: all of them, but the last one when it raised
Completed == IF raised # "" THEN Len(log) - 1 ELSE Len(log)

Idx(step) == CHOOSE k \in 1..Len(Steps) : Steps[k] = step

\* the statement main is at, or was at when the exception left it
Position ==
    IF pc = "Done" THEN Len(Steps) + 1
    ELSE IF pc = "Failed" THEN Idx(raised)
    ELSE Idx(pc)

\* main has completed statement `step`
Past(step) == Position > Idx(step)

ConfigWritten == \E i \in 1..Completed : log[i].step = "config"

Supplied(r) == args[r] # NonePath
StagedPath(r) == join(working_dir, basename(args[r]))

----------------------------------------------------------------------------
(* C1 *)

\* the calls of a complete run, in the order of the pipeline's steps 1-6
ExpectedSteps ==
    (IF Truthy(args.output_dir) /\ args.output_dir \in dirs0 THEN <<>> ELSE <<"mkdir">>)
    \o <<"copy_dsm", "copy_cls">>
    \o (IF Supplied("mtl") THEN <<"copy_mtl">> ELSE <<>>)
    \o (IF Supplied("dtm") THEN <<"copy_dtm">> ELSE <<>>)
    \o <<"config", "get_crs", "conv_dsm", "conv_cls">>
    \o (IF Supplied("mtl") THEN <<"conv_mtl">> ELSE <<>>)
    \o (IF Supplied("dtm") THEN <<"conv_dtm">> ELSE <<>>)
    \o <<"float32", "engine">>

\* C1: the calls main makes are, in every run, a prefix of: make the working
\* directory, copy every supplied candidate, write the config file, resolve
\* the reference CRS and reproject every staged raster, convert the DSM to
\* Float32, call the engine.  A call is made only when every call before it
\* has returned, and when the engine is called none of them is missing.
C1_StepsInOrder ==
    /\ IsPrefix(LogSteps, ExpectedSteps)
    /\ Completed >= Len(log) - 1
    /\ \A i \in 1..Len(log) : i < Len(log) => log[i].step # raised
    /\ engine_calls # <<>> =>
        /\ LogSteps = ExpectedSteps
        /\ raised \in {"", "engine"}
        /\ working_dir \in dirs
        /\ {test_dsm, test_cls, config_filename} \subseteq DOMAIN fs

C1_Witness ==
    /\ pc = "Done"
    /\ LogSteps = ExpectedSteps
    /\ Len(log) = 13

----------------------------------------------------------------------------
(* C2 *)

\* C2: a call that raises ends the run at once: the exception leaves main
\* (pc = "Failed"), the raising call is the last call main made, and the
\* engine is not called after a failed step.
C2_FailFast ==
    /\ (raised # "") <=> (pc = "Failed")
    /\ raised # "" =>
        /\ log # <<>>
        /\ log[Len(log)].step = raised
        /\ raised # "engine" => (engine_calls = <<>> /\ engine_status = "not called")

C2_Witness ==
    /\ pc = "Failed"
    /\ raised = "conv_cls"
    /\ engine_calls = <<>>

----------------------------------------------------------------------------
(* C3 *)

\* no file at args.dsm
DsmMissing == args.dsm \notin DOMAIN fs0
\* a file at args.dsm that is no readable raster
DsmCorrupt == args.dsm \in DOMAIN fs0 /\ CrsOf(fs0[args.dsm]) = NoCrs

\* C3 as claimed: when the test DSM is corrupt or unreadable, the copy or
\* the reprojection of it fails the run before any config document has been
\* written.
C3_NoConfigWhenDsmBad ==
    ( /\ DsmMissing \/ DsmCorrupt
      /\ pc = "Failed"
      /\ raised \in {"copy_dsm", "conv_dsm"} ) => ~ConfigWritten

\* C3 as amended: a test DSM that cannot be copied stops the run at the copy
\* of line 112, before any config document is written; a test DSM that can be
\* copied but is no readable raster is rejected only by the reprojection of
\* line 135, and then the config document has been written.
C3_ConfigBeforeRasterRead ==
    /\ DsmMissing =>
        /\ pc \in {"mkdir", "paths", "copy_dsm", "Failed"}
        /\ pc = "Failed" => raised \in {"mkdir", "copy_dsm"}
        /\ ~ConfigWritten
    /\ (DsmCorrupt /\ raised = "conv_dsm") =>
        /\ ConfigWritten
        /\ config_filename \in DOMAIN fs

C3_Witness ==
    /\ DsmCorrupt
    /\ raised = "conv_dsm"
    /\ CrsOf(fs[test_dsm]) = NoCrs
    /\ config_filename \in DOMAIN fs

----------------------------------------------------------------------------
(* C4 *)

LocalOf(r) == IF r = "mtl" THEN test_mtl ELSE test_dtm
\* the path generate_config_file was given for r in the call with arguments a
LocalIn(a, r) == IF r = "mtl" THEN a.test_mtl ELSE a.test_dtm
CopyStep(r) == IF r = "mtl" THEN "copy_mtl" ELSE "copy_dtm"
ConvStep(r) == IF r = "mtl" THEN "conv_mtl" ELSE "conv_dtm"

\* C4: for MTL and DTM each: when omitted it is neither copied nor
\* reprojected, no call fails for it, and '' is the path the config builder
\* gets; when supplied it is copied to <working_dir>/<base name> and that
\* file is reprojected.
C4_OptionalInputs ==
    \A r \in {"mtl", "dtm"} :
        /\ ~Supplied(r) =>
            /\ \A i \in 1..Len(log) : log[i].step \notin {CopyStep(r), ConvStep(r)}
            /\ raised \notin {CopyStep(r), ConvStep(r)}
            /\ Past(CopyStep(r)) => LocalOf(r) = EmptyPath
            /\ \A k \in 1..Len(config_calls) : LocalIn(config_calls[k], r) = EmptyPath
        /\ Supplied(r) =>
            /\ Past(CopyStep(r)) =>
                /\ \E i \in 1..Completed :
                      log[i] = Ev(CopyStep(r), "copyfile", args[r], StagedPath(r))
                /\ LocalOf(r) = StagedPath(r)
                /\ StagedPath(r) \in DOMAIN fs
            /\ (pc # "Failed" /\ Position = Idx(CopyStep(r)) + 1) =>
                  fs[StagedPath(r)] = fs0[args[r]]
            /\ \A k \in 1..Len(config_calls) : LocalIn(config_calls[k], r) = StagedPath(r)
            /\ Past(ConvStep(r)) =>
                /\ \E i \in 1..Completed :
                      log[i] = Ev(ConvStep(r), "convert_coordinate_system",
                                  StagedPath(r), StagedPath(r))

C4_Witness ==
    /\ pc = "Done"
    /\ ~Supplied("mtl")
    /\ Supplied("dtm")
    /\ test_mtl = EmptyPath
    /\ Len(config_calls) = 1
    /\ config_calls[1].test_mtl = EmptyPath
    /\ test_dtm \in DOMAIN fs

----------------------------------------------------------------------------
(* C5 *)

\* C5 as claimed: when the run has ended, the file at every input path the
\* caller supplied has the content it had when the run started.
C5_OriginalsUnmodified ==
    pc \in {"Done", "Failed"} =>
        \A r \in {"dsm", "cls", "mtl", "dtm"} :
            args[r] \in DOMAIN fs0 =>
                (args[r] \in DOMAIN fs /\ fs[args[r]] = fs0[args[r]])

----------------------------------------------------------------------------
(* C6 *)

\* the file names this run writes in its working directory
RunNames ==
    {basename(args.dsm), basename(args.cls)}
    \cup {basename(args[r]) : r \in {q \in {"mtl", "dtm"} : Supplied(q)}}
    \cup {get_filename(join(args.output_dir, basename(args.dsm)),
                       join(args.output_dir, basename(args.cls)))}

\* C6: with --output-dir given: an existing directory is reused, the
\* directory step changes nothing in it and makes no call, and every file of
\* it whose name this run does not write keeps its content to the end; a
\* missing directory is made.
C6_OutputDirReused ==
    Truthy(args.output_dir) =>
        /\ args.output_dir \in dirs0 =>
            /\ \A p \in DOMAIN fs0 :
                  (p.dir = args.output_dir /\ p.base \notin RunNames) =>
                      (p \in DOMAIN fs /\ fs[p] = fs0[p])
            /\ \A i \in 1..Len(log) : log[i].step # "mkdir"
            /\ pc = "paths" => (fs = fs0 /\ dirs = dirs0)
        /\ args.output_dir \notin dirs0 =>
            /\ Past("mkdir") => log[1] = Ev("mkdir", "makedirs", Path(args.output_dir, EmptyStr),
                                            Path(args.output_dir, EmptyStr))
        /\ Past("mkdir") => (working_dir = args.output_dir /\ args.output_dir \in dirs)

C6_Witness ==
    /\ pc = "Done"
    /\ args.output_dir = OutDir
    /\ OutDir \in dirs0
    /\ fs[Path(OutDir, Str("old.txt"))] = fs0[Path(OutDir, Str("old.txt"))]
    /\ \E p \in DOMAIN fs : p.dir = OutDir /\ p \notin DOMAIN fs0

----------------------------------------------------------------------------
(* C7 *)

StagedRasters == {test_dsm, test_cls} \cup {p \in {test_mtl, test_dtm} : PathTruthy(p)}

\* C7: when the engine is called, every staged raster (DSM, CLS, and MTL and
\* DTM when supplied) has the CRS that was resolved from
\* <ref_dir>/<ref_prefix>-DSM.tif, and the staged DSM is Float32.
C7_NormalizedAtDispatch ==
    (pc = "engine" \/ engine_calls # <<>>) =>
        /\ ref_dsm = Path(args.ref_dir, args.ref_prefix \o Str("-DSM.tif"))
        /\ ref_proj4 # NoCrs
        /\ ref_proj4 = CrsOf(fs[ref_dsm])
        /\ \A r \in {"dsm", "cls", "mtl", "dtm"} : Supplied(r) => StagedPath(r) \in StagedRasters
        /\ \A p \in StagedRasters : p \in DOMAIN fs /\ CrsOf(fs[p]) = ref_proj4
        /\ fs[test_dsm].dtype = "float32"

C7_Witness ==
    /\ engine_calls # <<>>
    /\ fs0[args.dsm].crs = OtherCrs
    /\ fs0[args.dsm].dtype = "float64"
    /\ Supplied("mtl")
    /\ ref_proj4 = RefCrs
    /\ fs[test_dsm].crs = RefCrs
    /\ fs[test_dsm].dtype = "float32"

----------------------------------------------------------------------------
(* C8 *)

----------------------------------------------------------------------------
(* C9 *)

\* C9: the engine is called with exactly the four named arguments config,
\* reference, test and output: config is the path of the config document
\* this run wrote in its working directory, reference is args.ref_dir, test
\* and output are the working directory.
C9_EngineArguments ==
    \A k \in 1..Len(engine_calls) :
        LET c == engine_calls[k] IN
        /\ DOMAIN c = {"config", "reference", "test", "output"}
        /\ working_dir = (IF Truthy(args.output_dir) THEN args.output_dir
                          ELSE Str("metrics-") \o Str(ToString(now)))
        /\ c.config.dir = working_dir
        /\ \E i \in 1..Completed : log[i].step = "config" /\ log[i].dst = c.config
        /\ c.config \in DOMAIN fs
        /\ Len(config_calls) = 1
        /\ config_calls[1].working_dir = working_dir
        /\ c.reference = args.ref_dir
        /\ c.test = working_dir
        /\ c.output = working_dir

C9_Witness ==
    /\ Len(engine_calls) = 1
    /\ ~Truthy(args.output_dir)
    /\ engine_calls[1].output = MetricsDirName(now)
    /\ engine_calls[1].config \in DOMAIN fs

----------------------------------------------------------------------------
(* C10 *)

\* C10: nothing is deleted or rolled back, also when a call fails: every
\* directory and file of the start is still there, and so is the effect of
\* every call that returned (the directory made, the copies, the config
\* document, the conversions).
C10_NothingRemoved ==
    /\ dirs0 \subseteq dirs
    /\ DOMAIN fs0 \subseteq DOMAIN fs
    /\ \A i \in 1..Completed :
        LET e == log[i] IN
        /\ e.op \in {"mkdir", "makedirs"} => (e.dst.dir \in dirs /\ e.dst.dir = working_dir)
        /\ e.op \in {"copyfile", "write"} => (e.dst \in DOMAIN fs /\ e.dst.dir \in dirs)
        /\ e.step = "config" => "ref_prefix" \in DOMAIN fs[e.dst]
        /\ e.op = "convert_coordinate_system" => CrsOf(fs[e.dst]) = ref_proj4
        /\ e.op = "convert_float32" => fs[e.dst].dtype = "float32"

C10_Witness ==
    /\ pc = "Failed"
    /\ raised = "float32"
    /\ working_dir \in dirs \ dirs0
    /\ {test_dsm, test_cls, config_filename} \subseteq DOMAIN fs
    /\ CrsOf(fs[test_cls]) = ref_proj4

----------------------------------------------------------------------------
(* C11 *)

\* C11 as claimed, for two runs one after the other: when their (dsm, cls)
\* argument pairs differ, also by the directory only, their config files
\* differ; when the pairs and the working directories are the same, the
\* config files are the same.
C11_ConfigNamesDistinct ==
    \A k \in 1..Len(history) :
        LET h == history[k] IN
        (h.config_filename # NonePath /\ config_filename # NonePath) =>
            /\ <<h.args.dsm, h.args.cls>> # <<args.dsm, args.cls>> =>
                  h.config_filename # config_filename
            /\ (<<h.args.dsm, h.args.cls>> = <<args.dsm, args.cls>>
                    /\ h.working_dir = working_dir) =>
                  h.config_filename = config_filename

----------------------------------------------------------------------------
(* C12 *)

\* C12: without --output-dir, a run that gets past the directory step works
\* in metrics-<now>, which did not exist when the run started and which the
\* run made; when that directory exists already the run fails at os.mkdir
\* and touches nothing; so two runs without --output-dir never work in the
\* same directory.
C12_FreshWorkingDir ==
    ~Truthy(args.output_dir) =>
        /\ Past("mkdir") =>
            /\ working_dir = Str("metrics-") \o Str(ToString(now))
            /\ working_dir \notin dirs0
            /\ working_dir \in dirs
        /\ (Str("metrics-") \o Str(ToString(now))) \in dirs0 =>
            /\ pc \in {"mkdir", "Failed"}
            /\ pc = "Failed" => raised = "mkdir"
            /\ working_dir = None
            /\ fs = fs0
            /\ dirs = dirs0
        /\ \A k \in 1..Len(history) :
              (~Truthy(history[k].args.output_dir) /\ history[k].working_dir # None
                    /\ Past("mkdir")) =>
                  history[k].working_dir # working_dir

C12_Witness ==
    /\ history # <<>>
    /\ ~Truthy(history[1].args.output_dir)
    /\ ~Truthy(args.output_dir)
    /\ history[1].now = now
    /\ history[1].working_dir = MetricsDirName(now)
    /\ pc = "Failed"
    /\ raised = "mkdir"
    /\ working_dir = None

----------------------------------------------------------------------------
(* C13 *)

\* os.path.isabs, over the directories of the model
isabs(p) == p.dir \in {InDir, AltDir, OutDir, RefDir}

\* C13 as claimed: every non-empty test path (DSM, CLS, MTL, DTM) that
\* generate_config_file is given is an absolute path.
C13_ConfigPathsAbsolute ==
    \A k \in 1..Len(config_calls) :
        \A p \in {config_calls[k].test_dsm, config_calls[k].test_cls,
                  config_calls[k].test_mtl, config_calls[k].test_dtm} :
            PathTruthy(p) => isabs(p)

----------------------------------------------------------------------------
(* C14 *)

CallsOf(step) == {i \in 1..Len(log) : log[i].step = step}

\* C14: generate_config_file is called at most once and the engine at most
\* once in every run; a run that ends without an exception has called each
\* exactly once and gave the engine the config file it wrote; the engine is
\* only called after the config file is written; and once the config file is
\* written no later step changes its path or its content.
C14_ConfigOnceEngineOnce ==
    /\ [](/\ Len(config_calls) <= 1
          /\ Len(engine_calls) <= 1
          /\ Cardinality(CallsOf("config")) <= 1
          /\ Cardinality(CallsOf("engine")) <= 1
          /\ engine_calls # <<>> =>
                /\ ConfigWritten
                /\ engine_calls[1].config = config_filename
                /\ config_filename \in DOMAIN fs
          /\ pc = "Done" =>
                /\ Len(config_calls) = 1
                /\ Len(engine_calls) = 1
                /\ Cardinality(CallsOf("config")) = 1
                /\ Cardinality(CallsOf("engine")) = 1)
    /\ [][ConfigWritten =>
            /\ config_filename' = config_filename
            /\ config_calls' = config_calls
            /\ config_filename \in DOMAIN fs'
            /\ fs'[config_filename] = fs[config_filename]]_vars

C14_Witness ==
    /\ pc = "Done"
    /\ Supplied("mtl")
    /\ Len(config_calls) = 1
    /\ Len(engine_calls) = 1
    /\ \E i \in CallsOf("config") : \E j \in CallsOf("conv_mtl") : \E k \in CallsOf("float32") :
          i < j /\ j < k
    /\ engine_calls[1].config = config_filename

----------------------------------------------------------------------------
(* C16 *)

Roles == {"dsm", "cls", "mtl", "dtm"}

\* C16 as claimed: when staging is complete, every supplied role has a
\* staged file <working_dir>/<base name> whose content is that of the role's
\* input file at the start of the run, and two supplied roles with different
\* input paths have different staged paths.
C16_OwnStagedCopy ==
    pc = "config" =>
        /\ \A r \in Roles : Supplied(r) =>
              /\ StagedPath(r) \in DOMAIN fs
              /\ args[r] \in DOMAIN fs0
              /\ fs[StagedPath(r)] = fs0[args[r]]
        /\ \A r, q \in Roles :
              (Supplied(r) /\ Supplied(q) /\ args[r] # args[q]) =>
                  StagedPath(r) # StagedPath(q)

----------------------------------------------------------------------------
(* C15 *)

\* C15 as claimed: a run that ends without an exception has called
\* convert_float32 exactly once, on the staged DSM, after every
\* reprojection; and the step leaves the pixel type of the staged CLS, MTL
\* and DTM files as it was.
C15_Float32DsmOnly ==
    /\ [](pc = "Done" =>
            /\ Cardinality(CallsOf("float32")) = 1
            /\ \A i \in CallsOf("float32") :
                  /\ log[i].src = StagedPath("dsm")
                  /\ \A j \in 1..Len(log) :
                        log[j].op = "convert_coordinate_system" => j < i)
    /\ [][(pc = "float32" /\ pc' # "Failed") =>
            \A r \in {"cls", "mtl", "dtm"} : Supplied(r) =>
                /\ StagedPath(r) \in DOMAIN fs
                /\ StagedPath(r) \in DOMAIN fs'
                /\ fs'[StagedPath(r)].dtype = fs[StagedPath(r)].dtype]_vars

----------------------------------------------------------------------------
(* C17 *)

\* C17 as claimed: at every point of a run the files of the reference
\* directory are the files it had at the start, with the content they had.
C17_ReferenceDirUntouched ==
    \A p \in (DOMAIN fs) \cup (DOMAIN fs0) :
        p.dir = args.ref_dir =>
            /\ p \in DOMAIN fs0
            /\ p \in DOMAIN fs
            /\ fs[p] = fs0[p]

----------------------------------------------------------------------------
(* C18 *)

\* the copy of role r was made
Copied(r) == \E i \in 1..Completed : log[i].step = CopyStep(r)
\* convert_coordinate_system was called for role r
Reprojected(r) == \E i \in 1..Len(log) : log[i].step = ConvStep(r)

\* C18: for MTL and DTM each: the role is reprojected only if it was copied,
\* and a run that gets to the role's reprojection statement reprojects it if
\* it was copied; the path main keeps for the role, and the path
\* generate_config_file gets for it, is non-empty exactly if the role was
\* copied; an argument given as '' fails the run at the copy, before the
\* config file and before any reprojection.
C18_GuardsAgree ==
    \A r \in {"mtl", "dtm"} :
        /\ Reprojected(r) => Copied(r)
        /\ (Past(ConvStep(r)) \/ raised = ConvStep(r)) => (Copied(r) <=> Reprojected(r))
        /\ Past(CopyStep(r)) => (PathTruthy(LocalOf(r)) <=> Copied(r))
        /\ \A k \in 1..Len(config_calls) :
              PathTruthy(LocalIn(config_calls[k], r)) <=> Copied(r)
        /\ args[r] = EmptyPath =>
              /\ ~Past(CopyStep(r))
              /\ ~Copied(r)
              /\ ~Reprojected(r)
              /\ config_calls = <<>>

C18_Witness ==
    /\ pc = "Done"
    /\ Supplied("mtl") /\ Copied("mtl") /\ Reprojected("mtl")
    /\ ~Supplied("dtm") /\ ~Copied("dtm") /\ ~Reprojected("dtm")
    /\ PathTruthy(config_calls[1].test_mtl)
    /\ ~PathTruthy(config_calls[1].test_dtm)

\* an optional argument given as '' ends the run at its copy
C18_EmptyStringWitness ==
    /\ args.mtl = EmptyPath
    /\ pc = "Failed"
    /\ raised = "copy_mtl"

====
